---- MODULE Spec2Model ----
(***************************************************************************)
(* Engagement scheduling, execution, locking and stale-action recovery of  *)
(* B2B-Pulse (backend/app/workers, backend/app/core/locks.py).             *)
(*                                                                         *)
(* Time is counted in seconds.  A timestamp column is kept as its age      *)
(* (now - column), so `column < now - timedelta(x)` reads `age > x`; ages  *)
(* saturate just above the largest threshold the code compares them with.  *)
(* The clock advances in steps of TickSeconds.                             *)
(***************************************************************************)
EXTENDS Integers, Sequences, FiniteSets, Bags, TLC

\* a nullable timestamp column that holds NULL
NoTime == -1

\* a Redis key that does not exist (GET returns nil)
NoId == 0

Min(a, b) == IF a <= b THEN a ELSE b
Max(a, b) == IF a >= b THEN a ELSE b

(***************************************************************************)
(* Bounds of the model                                                     *)
(***************************************************************************)
\* the seconds one step of the clock takes: longer than the lock TTL, and two
\* steps reach the soft time limit
TickSeconds == 150

\* the most messages queued or being worked on for which the Reaper and a
\* redelivery still add one
MaxQueue == 2

\* the seconds one step of the finer clock takes, under which a lock key lives
\* through more than one step
SleepSeconds == 60

\* the seconds after the end of the quiet hours for which the wall clock is followed
MorningSeconds == 300

\* the most subscriptions a tracked page has
MaxSubs == 2

\* the minutes between two of the wall-clock times _quiet_hours_offset is called at
StepMinutes == 30

(***************************************************************************)
(* Program constants                                                       *)
(***************************************************************************)
LOCK_TTL == 120
BLOCKING_TIMEOUT == 30
EXTEND_ADDITIONAL == 30
PENDING_STALE_MINUTES == 30
IN_PROGRESS_STALE_MINUTES == 10
MAX_RETRIES == 3
TASK_MAX_RETRIES == 2
DEFAULT_RETRY_DELAY == 60
BUSY_COUNTDOWN == 30
SOFT_TIME_LIMIT == 300
TIME_LIMIT == 360
LIKE_CAP_SAFE == 50
LIKE_CAP_AGGRO == 150
COMMENT_CAP_SAFE == 20
COMMENT_CAP_AGGRO == 60
LIKE_STAGGER_MIN == 1
LIKE_STAGGER_MAX == 5
COMMENT_STAGGER_MIN == 60
COMMENT_STAGGER_MAX == 300
COMMENT_INTER_USER_DELAY == 60

Workers == {"w1", "w2"}
Users == {"u1"}
Platforms == {"linkedin", "meta"}

(***************************************************************************)
(* Redis user lock (core/locks.py)                                         *)
(***************************************************************************)
VARIABLES
    store,      \* Redis: lock key -> [val: stored lock id or NoId, ttl: seconds left]
    lockObj,    \* per worker process: its UserLock object, or NoLock
    blocking,   \* per worker process: a blocking acquire() in progress, or NotBlocking
    ret,        \* history: per worker process, what its last direct UserLock call returned
    wins        \* history: per key, acquires that succeeded since the key was last absent

lockVars == <<store, lockObj, blocking, ret, wins>>

\* lock_key = f"{LOCK_PREFIX}{action}:{user_id}"
LockKey(action, user_id) == <<action, user_id>>

\* lock_action = f"engagement_{platform_value}"
LockAction(platform_value) == <<"engagement", platform_value>>

Keys == {LockKey(LockAction(p), u) : p \in Platforms, u \in Users}

LockIds == (NoId + 1) .. (NoId + Cardinality(Workers) + Cardinality(Keys) + 1)

\* no UserLock object (acquire_user_lock returned None, or none was made yet)
NoLock == [key |-> LockKey(LockAction("none"), "none"), lock_id |-> NoId, ttl |-> 0, acquired |-> FALSE]

NotBlocking == [waited |-> 0, timeout |-> 0]

NoRet == [op |-> "none", ok |-> FALSE]

\* uuid.uuid4(): an id no key stores and no live object carries
UsedIds == {store[k].val : k \in Keys} \cup {lockObj[w].lock_id : w \in Workers}
Uuid4 == CHOOSE i \in LockIds : i \notin UsedIds /\ \A j \in LockIds : j \notin UsedIds => i <= j

\* UserLock.__init__
UserLock(user_id, action) ==
    [key |-> LockKey(action, user_id), lock_id |-> Uuid4, ttl |-> LOCK_TTL, acquired |-> FALSE]

\* redis SET key value EX ttl, without NX: the reply
SetOk(key) == TRUE

\* redis SET key value NX EX ttl: the reply
SetNxOk(key) == store[key].val = NoId

\* redis SET key value NX EX ttl: the store afterwards
SetNx(key, value, ttl) ==
    IF SetNxOk(key) THEN [store EXCEPT ![key] = [val |-> value, ttl |-> ttl]] ELSE store

\* redis DEL key, without the comparison: the reply
DelOk(key, value) == store[key].val # NoId

\* the compare-and-delete script of release()
ReleaseScriptOk(key, value) == store[key].val = value

ReleaseScript(key, value) ==
    IF ReleaseScriptOk(key, value) THEN [store EXCEPT ![key] = [val |-> NoId, ttl |-> 0]] ELSE store

\* the compare-and-expire script of extend()
ExtendScriptOk(key, value) == store[key].val = value

ExtendScript(key, value, ttl) ==
    IF ExtendScriptOk(key, value) THEN [store EXCEPT ![key].ttl = ttl] ELSE store

\* history: a successful SET NX counts one more holder of the key
WinsAfterAcquire(key, ok) == IF ok THEN [wins EXCEPT ![key] = @ + 1] ELSE wins

\* history: the key was deleted
WinsAfterDelete(key, deleted) == IF deleted THEN [wins EXCEPT ![key] = 0] ELSE wins

\* UserLock._try_acquire on lock object o, held by worker w
TryAcquire(w, o) ==
    LET ok == SetNxOk(o.key)
    IN  /\ store' = SetNx(o.key, o.lock_id, o.ttl)
        /\ lockObj' = [lockObj EXCEPT ![w] = [o EXCEPT !.acquired = IF ok THEN TRUE ELSE @]]
        /\ wins' = WinsAfterAcquire(o.key, ok)
        /\ ret' = [ret EXCEPT ![w] = [op |-> "acquire", ok |-> ok]]

\* UserLock.release: the value returned
ReleaseOk(o) == o.acquired /\ ReleaseScriptOk(o.key, o.lock_id)

\* a release that leaves the key alone
KeepStore(o) == store

\* UserLock.release: the store afterwards
ReleaseStore(o) == IF o.acquired THEN ReleaseScript(o.key, o.lock_id) ELSE store

\* UserLock.release of worker w's lock object
Release(w) ==
    LET o == lockObj[w]
        ok == ReleaseOk(o)
    IN  /\ store' = ReleaseStore(o)
        /\ lockObj' = [lockObj EXCEPT ![w].acquired = IF o.acquired THEN ~ok ELSE @]
        /\ wins' = WinsAfterDelete(o.key, ok)
        /\ ret' = [ret EXCEPT ![w] = [op |-> "release", ok |-> ok]]

\* UserLock.extend of worker w's lock object
Extend(w, additional_time) ==
    LET o == lockObj[w]
        ok == ExtendScriptOk(o.key, o.lock_id)
    IN  /\ store' = ExtendScript(o.key, o.lock_id, o.ttl + additional_time)
        /\ ret' = [ret EXCEPT ![w] = [op |-> "extend", ok |-> ok]]
        /\ UNCHANGED <<lockObj, wins>>

\* a Redis key that was set without EX: it never expires
Persists(k, dt) == FALSE

\* Redis expiry after dt seconds
Expired(k, dt) == store[k].val # NoId /\ store[k].ttl <= dt

ExpireStore(dt) ==
    [k \in Keys |-> IF store[k].val = NoId THEN store[k]
                    ELSE IF Expired(k, dt) THEN [val |-> NoId, ttl |-> 0]
                    ELSE [store[k] EXCEPT !.ttl = @ - dt]]

ExpireWins(dt) == [k \in Keys |-> IF Expired(k, dt) THEN 0 ELSE wins[k]]

(***************************************************************************)
(* The lock on its own: worker processes calling the UserLock API in any   *)
(* order while Redis expires keys.                                         *)
(***************************************************************************)

\* the timeout a caller passes to acquire(blocking=True, timeout=...)
Timeouts == {BLOCKING_TIMEOUT}

\* lock = UserLock(user_id, action)
LkNew(w, k) ==
    /\ blocking[w] = NotBlocking
    /\ lockObj' = [lockObj EXCEPT ![w] = UserLock(k[2], k[1])]
    /\ ret' = [ret EXCEPT ![w] = NoRet]
    /\ UNCHANGED <<store, blocking, wins>>

\* lock.acquire(blocking=False)
LkAcquire(w) ==
    /\ blocking[w] = NotBlocking
    /\ lockObj[w] # NoLock
    /\ TryAcquire(w, lockObj[w])
    /\ UNCHANGED blocking

\* lock.acquire(blocking=True, timeout): start_time = time.time()
LkAcquireBlocking(w, timeout) ==
    /\ blocking[w] = NotBlocking
    /\ lockObj[w] # NoLock
    /\ blocking' = [blocking EXCEPT ![w] = [waited |-> 0, timeout |-> timeout]]
    /\ ret' = [ret EXCEPT ![w] = NoRet]
    /\ UNCHANGED <<store, lockObj, wins>>

\* one round of the polling loop: _try_acquire, else sleep
LkPoll(w) ==
    /\ blocking[w] # NotBlocking
    /\ blocking[w].waited < blocking[w].timeout
    /\ TryAcquire(w, lockObj[w])
    /\ blocking' = [blocking EXCEPT ![w] = IF SetNxOk(lockObj[w].key) THEN NotBlocking ELSE @]

\* the polling loop ends: time.time() - start_time >= timeout, return False
LkGiveUp(w) ==
    /\ blocking[w] # NotBlocking
    /\ blocking[w].waited >= blocking[w].timeout
    /\ blocking' = [blocking EXCEPT ![w] = NotBlocking]
    /\ ret' = [ret EXCEPT ![w] = [op |-> "acquire", ok |-> FALSE]]
    /\ UNCHANGED <<store, lockObj, wins>>

\* lock.release()
LkRelease(w) ==
    /\ blocking[w] = NotBlocking
    /\ lockObj[w] # NoLock
    /\ Release(w)
    /\ UNCHANGED blocking

\* lock.extend()
LkExtend(w) ==
    /\ blocking[w] = NotBlocking
    /\ lockObj[w] # NoLock
    /\ Extend(w, EXTEND_ADDITIONAL)
    /\ UNCHANGED blocking

\* the time a blocked caller has waited, after dt more seconds
Waited(dt) ==
    [w \in Workers |-> IF blocking[w] = NotBlocking THEN NotBlocking
                       ELSE [blocking[w] EXCEPT !.waited = Min(@ + dt, blocking[w].timeout)]]

(***************************************************************************)
(* Engagement records, the task queue and the worker processes             *)
(***************************************************************************)
VARIABLES
    rows,       \* table engagement_actions: action id -> row
    queue,      \* the broker: a bag of execute_engagement messages
    inv,        \* per worker process: the execute_engagement task it is running
    performed,  \* history: per action, adapter calls that acted on the platform
    retried     \* history: per action, FAILED -> PENDING transitions made by the Reaper

VARIABLES
    now,        \* datetime.now(UTC): [weekday, second of the day]
    subs,       \* the tracked page's subscriptions, each with its user's automation settings
    today,      \* per user: the committed engagement_actions rows created today, by kind
    pass,       \* the schedule_engagements pass: position, rows added, messages published
    offset,     \* what the last call of _quiet_hours_offset returned, or NoTime
    rival       \* a schedule_engagements pass for another post of the same page

VARIABLES
    posts,      \* table posts: the committed rows
    hook,       \* per HTTP request: the handle_whatsapp_link call it is in
    delayed     \* the broker: a bag of schedule_staggered_engagements messages

histVars == <<performed, retried>>
schedVars == <<now, subs, today, pass, offset, rival>>
hookVars == <<posts, hook, delayed>>
vars == <<store, lockObj, blocking, ret, wins, rows, queue, inv, performed, retried,
          now, subs, today, pass, offset, rival, posts, hook, delayed>>

ActionIds == {"a1"}

\* the immutable columns of each row and the platform of its post
Meta ==
    [a \in ActionIds |-> [user_id |-> "u1", platform |-> "linkedin", action_type |-> "like"]]

(* error messages are sequences of words; the empty sequence is NULL *)
NoMsg == <<>>

MsgTimedOutWorker == <<"Timed", "out", "worker", "may", "have", "crashed", "during", "execution">>
MsgApiFailed == <<"LinkedIn", "API", "reaction", "failed", "for", "url">>
MsgNotFound == <<"Like", "button", "not", "found", "for", "post:", "url">>
MsgSoftLimit == <<"SoftTimeLimitExceeded()">>

\* what an adapter or the comment generator may raise
AdapterErrors == {MsgApiFailed, MsgNotFound}

PERMANENT_FAILURE_PATTERNS ==
    { <<"button", "not", "found">>,
      <<"comment", "box", "not", "found">>,
      <<"already", "liked">>,
      <<"not", "found">>,
      <<"could", "not", "be", "completed">>,
      <<"Like", "button", "not", "found">>,
      <<"Comment", "box", "not", "found">> }

\* str.lower() of one word
LowerWord(word) ==
    CASE word = "Like" -> "like"
      [] word = "Comment" -> "comment"
      [] word = "Timed" -> "timed"
      [] word = "LinkedIn" -> "linkedin"
      [] word = "API" -> "api"
      [] word = "SoftTimeLimitExceeded()" -> "softtimelimitexceeded()"
      [] OTHER -> word

Lower(text) == [i \in 1 .. Len(text) |-> LowerWord(text[i])]

\* pattern in text
Contains(text, pattern) ==
    \E i \in 0 .. (Len(text) - Len(pattern)) :
        \A j \in 1 .. Len(pattern) : text[i + j] = pattern[j]

\* no error is permanent
never_permanent(error_message) == FALSE

is_permanent_failure(error_message) ==
    IF error_message = NoMsg THEN FALSE
    ELSE \E pattern \in PERMANENT_FAILURE_PATTERNS :
            Contains(Lower(error_message), Lower(pattern))

\* RETRY_DELAYS.get(n, RETRY_DELAYS[3])
RETRY_DELAYS(n) ==
    CASE n = 1 -> 5 * 60
      [] n = 2 -> 10 * 60
      [] n = 3 -> 15 * 60
      [] OTHER -> 15 * 60

PendingStale == PENDING_STALE_MINUTES * 60
InProgressStale == IN_PROGRESS_STALE_MINUTES * 60

\* an age after dt more seconds; it stops growing at cap
Age(t, dt, cap) == IF t = NoTime THEN NoTime ELSE Min(t + dt, cap)

\* Timestamps are kept as ages, each as far as a query can tell it apart:
\* created_at up to the pending cutoff, attempted_at up to the in-progress
\* cutoff and only while the row is IN_PROGRESS, last_retry_at up to the
\* backoff delay it is compared with.
AgeRow(r, dt) ==
    [r EXCEPT !.created_at = Age(@, dt, PendingStale + TickSeconds),
              !.attempted_at = Age(@, IF r.status = "in_progress" THEN dt ELSE InProgressStale + TickSeconds,
                                   InProgressStale + TickSeconds),
              !.last_retry_at = Age(@, dt, RETRY_DELAYS(r.retry_count + 1)),
              !.completed_at = Age(@, dt, 0)]

\* EngagementAction(status=PENDING), as the Scheduler inserts it
NewRow ==
    [status |-> "pending", attempted_at |-> NoTime, completed_at |-> NoTime,
     error_message |-> NoMsg, retry_count |-> 0, last_retry_at |-> NoTime, created_at |-> 0]

\* a message execute_engagement(action) with its remaining countdown and request.retries
Task(a, countdown, retries) == [action |-> a, countdown |-> countdown, retries |-> retries]

NoTask == Task("none", 0, 0)

\* a worker process between tasks; in a task: where it is (pc), the seconds
\* since the task started, whether SoftTimeLimitExceeded was raised, what the
\* adapter call did (kind), the status and error assigned to the loaded row
\* and not yet committed, and the audit entries the task has committed
Idle == [pc |-> "idle", task |-> NoTask, elapsed |-> 0, soft |-> FALSE,
         kind |-> "none", status |-> "none", error |-> NoMsg, audits |-> 0]

Enqueue(q, t) == q (+) SetToBag({t})
Dequeue(q, t) == q (-) SetToBag({t})

\* self.retry(countdown=...): re-publishes the message unless request.retries
\* has reached max_retries
SelfRetry(q, t, countdown) ==
    IF t.retries < TASK_MAX_RETRIES
    THEN Enqueue(q, Task(t.action, countdown, t.retries + 1))
    ELSE q

\* idle worker processes are alike: the first of them takes the next message
Rank(w) == IF w = "w1" THEN 1 ELSE 2

\* the messages published and not yet done with: queued or being worked on
Outstanding == BagCardinality(queue) + Cardinality({w \in Workers : inv[w].pc # "idle"})

(***************************************************************************)
(* Executor: execute_engagement / _execute_engagement                      *)
(***************************************************************************)

\* acquire_user_lock(user_id, action): a new UserLock, kept only if acquired
acquire_user_lock(w, user_id, action) ==
    LET o == UserLock(user_id, action)
        ok == SetNxOk(o.key)
    IN  /\ store' = SetNx(o.key, o.lock_id, o.ttl)
        /\ lockObj' = [lockObj EXCEPT ![w] = IF ok THEN [o EXCEPT !.acquired = TRUE] ELSE NoLock]
        /\ wins' = WinsAfterAcquire(o.key, ok)
        /\ UNCHANGED ret

\* the soft time limit has not yet raised SoftTimeLimitExceeded in the task
InTime(w) == inv[w].elapsed < SOFT_TIME_LIMIT \/ inv[w].soft

\* a guard that lets every status through
AnyStatus(r) == TRUE

\* the guard of _execute_engagement: anything but PENDING is a duplicate delivery
IsPending(r) == r.status = "pending"

\* A worker process takes a due message: the pre-lock lookup and the
\* non-blocking acquire, a busy lock being answered with self.retry(countdown=30);
\* then, under the lock, the row is loaded and its status checked.
Start(w, t) ==
    /\ inv[w].pc = "idle"
    /\ \A v \in Workers : inv[v].pc = "idle" => Rank(w) <= Rank(v)
    /\ BagIn(t, queue)
    /\ t.countdown = 0
    /\ LET m == Meta[t.action]
           got == SetNxOk(LockKey(LockAction(m.platform), m.user_id))
       IN  /\ acquire_user_lock(w, m.user_id, LockAction(m.platform))
           /\ inv' = [inv EXCEPT ![w] =
                        IF ~got THEN Idle
                        ELSE [Idle EXCEPT !.task = t,
                                          !.pc = IF IsPending(rows[t.action])
                                                 THEN "loaded" ELSE "finally"]]
           /\ queue' = IF got THEN Dequeue(queue, t)
                       ELSE SelfRetry(Dequeue(queue, t), t, BUSY_COUNTDOWN)
    /\ UNCHANGED <<blocking, rows>>

\* action.status = IN_PROGRESS; action.attempted_at = now; commit
ClaimRow(r) == [r EXCEPT !.status = "in_progress", !.attempted_at = 0]

Claim(w) ==
    /\ inv[w].pc = "loaded"
    /\ InTime(w)
    /\ rows' = [rows EXCEPT ![inv[w].task.action] = ClaimRow(@)]
    /\ inv' = [inv EXCEPT ![w].pc = "claimed"]
    /\ UNCHANGED <<lockVars, queue>>

\* What the adapter call can do: act on the platform and return (True or
\* None), return False without having acted (the browser adapters, when the
\* button or box is not found), or raise.
AdapterOutcomes ==
    {[kind |-> "done", error |-> NoMsg], [kind |-> "false", error |-> NoMsg]}
        \cup {[kind |-> "raise", error |-> e] : e \in AdapterErrors}

\* a try block that takes every return and every exception for a success
AlwaysCompleted(outcome) == "completed"

\* the status the try block leaves in the loaded object
StatusAfter(outcome) == IF outcome.kind = "raise" THEN "failed" ELSE "completed"

\* the inner try block: _execute_like / generate_and_review_comment + _execute_comment
Act(w, outcome) ==
    /\ inv[w].pc = "claimed"
    /\ InTime(w)
    /\ inv' = [inv EXCEPT ![w].pc = "acted",
                          ![w].kind = outcome.kind,
                          ![w].status = StatusAfter(outcome),
                          ![w].error = outcome.error]
    /\ UNCHANGED <<lockVars, rows, queue>>

\* a final commit that counts a failure as a retry
CommitCounting(r, status, error) ==
    IF status = "completed"
    THEN [r EXCEPT !.status = "completed", !.completed_at = 0]
    ELSE [r EXCEPT !.status = "failed", !.error_message = error,
                   !.retry_count = @ + 1, !.last_retry_at = 0]

\* the UPDATE the final commit sends: the columns the task assigned
CommitRow(r, status, error) ==
    IF status = "completed"
    THEN [r EXCEPT !.status = "completed", !.completed_at = 0]
    ELSE [r EXCEPT !.status = "failed", !.error_message = error]

\* db.add(audit); await db.commit()
Commit(w) ==
    /\ inv[w].pc = "acted"
    /\ InTime(w)
    /\ rows' = [rows EXCEPT ![inv[w].task.action] = CommitRow(@, inv[w].status, inv[w].error)]
    /\ inv' = [inv EXCEPT ![w].pc = "finally", ![w].audits = @ + 1,
                          ![w].kind = "none", ![w].status = "none", ![w].error = NoMsg]
    /\ UNCHANGED <<lockVars, queue>>

\* finally: lock.release(); the task ends
Finally(w) ==
    /\ inv[w].pc = "finally"
    /\ LET o == lockObj[w]
       IN  /\ store' = ReleaseStore(o)
           /\ wins' = WinsAfterDelete(o.key, ReleaseOk(o))
    /\ lockObj' = [lockObj EXCEPT ![w] = NoLock]
    /\ inv' = [inv EXCEPT ![w] = Idle]
    /\ UNCHANGED <<blocking, ret, rows, queue>>

\* SoftTimeLimitExceeded is raised in the task (soft_time_limit=300): inside the
\* inner try block it is caught with every other Exception; anywhere else it
\* leaves _execute_engagement and execute_engagement answers self.retry(exc=e).
SoftTimeLimit(w) ==
    /\ inv[w].pc \in {"loaded", "claimed", "acted"}
    /\ inv[w].elapsed >= SOFT_TIME_LIMIT
    /\ ~inv[w].soft
    /\ \/ /\ inv[w].pc = "claimed"
          /\ inv' = [inv EXCEPT ![w].pc = "acted", ![w].soft = TRUE, ![w].kind = "raise",
                                ![w].status = "failed", ![w].error = MsgSoftLimit]
          /\ UNCHANGED queue
       \/ /\ inv' = [inv EXCEPT ![w].pc = "finally", ![w].soft = TRUE]
          /\ queue' = SelfRetry(queue, inv[w].task, DEFAULT_RETRY_DELAY)
    /\ UNCHANGED <<lockVars, rows>>

\* The worker process is lost (killed at time_limit=360, or crashed): nothing
\* more of the task runs; with task_acks_late the broker may deliver the
\* message again.
Crash(w, redeliver) ==
    /\ inv[w].pc # "idle"
    /\ redeliver => Outstanding <= MaxQueue
    /\ inv' = [inv EXCEPT ![w] = Idle]
    /\ lockObj' = [lockObj EXCEPT ![w] = NoLock]
    /\ queue' = IF redeliver THEN Enqueue(queue, [inv[w].task EXCEPT !.countdown = 0]) ELSE queue
    /\ UNCHANGED <<store, blocking, ret, wins, rows>>

(***************************************************************************)
(* Reaper: cleanup_stale_actions / _cleanup                                *)
(***************************************************************************)

\* every PENDING row, whatever its age
AllPending == {a \in ActionIds : rows[a].status = "pending"}

\* pass 1: PENDING, never attempted, created before pending_cutoff
StalePending ==
    {a \in ActionIds : /\ rows[a].status = "pending"
                       /\ rows[a].attempted_at = NoTime
                       /\ rows[a].created_at > PendingStale}

\* every IN_PROGRESS row, whatever its age
AllInProgress == {a \in ActionIds : rows[a].status = "in_progress"}

\* pass 2: IN_PROGRESS, attempted before in_progress_cutoff
StaleInProgress ==
    {a \in ActionIds : /\ rows[a].status = "in_progress"
                       /\ rows[a].attempted_at # NoTime
                       /\ rows[a].attempted_at > InProgressStale}

\* a pass 2 that counts a stale failure twice
FailStaleTwice(r) ==
    [r EXCEPT !.status = "failed", !.error_message = MsgTimedOutWorker,
              !.retry_count = @ + 2, !.last_retry_at = 0]

\* pass 2: what it assigns to a stale IN_PROGRESS row
FailStale(r) ==
    [r EXCEPT !.status = "failed", !.error_message = MsgTimedOutWorker,
              !.retry_count = @ + 1, !.last_retry_at = 0]

\* the rows as pass 3 reads them (the session flushes pass 2 before the query)
RowsAfterPass2 == [a \in ActionIds |-> IF a \in StaleInProgress THEN FailStale(rows[a]) ELSE rows[a]]

\* every FAILED row, whatever its retry_count
AllFailed(rs) == {a \in ActionIds : rs[a].status = "failed"}

\* pass 3: the query
FailedActions(rs) ==
    {a \in ActionIds : rs[a].status = "failed" /\ rs[a].retry_count < MAX_RETRIES}

\* no backoff at all
NoBackoff(r) == TRUE

\* pass 3: the backoff skip does not apply
BackoffElapsed(r) ==
    \/ r.last_retry_at = NoTime
    \/ r.last_retry_at >= RETRY_DELAYS(r.retry_count + 1)

ToRetry(rs) ==
    {a \in FailedActions(rs) : ~is_permanent_failure(rs[a].error_message) /\ BackoffElapsed(rs[a])}

RequeueRow(r) == [r EXCEPT !.status = "pending", !.attempted_at = NoTime, !.error_message = NoMsg]

\* a pass that publishes its retries only
PublishedRetries(rs) ==
    SetToBag({Task(a, RETRY_DELAYS(rs[a].retry_count + 1), 0) : a \in ToRetry(rs)})

\* the messages one pass publishes
Published(rs) ==
    SetToBag({Task(a, 0, 0) : a \in StalePending})
        (+) SetToBag({Task(a, RETRY_DELAYS(rs[a].retry_count + 1), 0) : a \in ToRetry(rs)})

Cleanup ==
    LET rs == RowsAfterPass2
    IN  /\ Outstanding + BagCardinality(Published(rs)) <= MaxQueue
        /\ rows' = [a \in ActionIds |-> IF a \in ToRetry(rs) THEN RequeueRow(rs[a]) ELSE rs[a]]
        /\ queue' = queue (+) Published(rs)
        /\ UNCHANGED <<lockVars, inv>>

(***************************************************************************)
(* Time                                                                    *)
(***************************************************************************)
TickTask(t) == [t EXCEPT !.countdown = Max(@ - TickSeconds, 0)]

\* TickSeconds pass; a task still running at time_limit has been killed by then
Tick ==
    /\ \A w \in Workers : inv[w].pc # "idle" => inv[w].elapsed + TickSeconds < TIME_LIMIT
    /\ rows' = [a \in ActionIds |-> AgeRow(rows[a], TickSeconds)]
    /\ queue' = BagOfAll(TickTask, queue)
    /\ inv' = [w \in Workers |->
                 IF inv[w].pc = "idle" THEN inv[w]
                 ELSE [inv[w] EXCEPT !.elapsed = @ + TickSeconds]]
    /\ store' = ExpireStore(TickSeconds)
    /\ wins' = ExpireWins(TickSeconds)
    /\ blocking' = Waited(TickSeconds)
    /\ UNCHANGED <<lockObj, ret>>

\* the same for the lock on its own
LkTick ==
    /\ store' = ExpireStore(TickSeconds)
    /\ wins' = ExpireWins(TickSeconds)
    /\ blocking' = Waited(TickSeconds)
    /\ UNCHANGED <<lockObj, ret>>

\* SleepSeconds pass for the lock on its own
LkSleep ==
    /\ store' = ExpireStore(SleepSeconds)
    /\ wins' = ExpireWins(SleepSeconds)
    /\ blocking' = Waited(SleepSeconds)
    /\ UNCHANGED <<lockObj, ret>>

(***************************************************************************)
(* History                                                                 *)
(***************************************************************************)
\* history counters stop counting just above what the claims distinguish
Count(n, cap) == Min(n + 1, cap)

\* in this step an adapter call for action a acted on the platform
Performs(a) ==
    \E w \in Workers : /\ inv[w].pc = "claimed"
                       /\ inv[w].task.action = a
                       /\ inv'[w].pc = "acted"
                       /\ inv'[w].kind = "done"

\* in this step the row of action a went from FAILED to PENDING
Retries(a) == rows[a].status = "failed" /\ rows'[a].status = "pending"

History ==
    /\ performed' = [a \in ActionIds |-> IF Performs(a) THEN Count(performed[a], 2) ELSE performed[a]]
    /\ retried' = [a \in ActionIds |->
                     IF Retries(a) THEN Count(retried[a], MAX_RETRIES + 1) ELSE retried[a]]

(***************************************************************************)
(* Scheduler: schedule_staggered_engagements / _schedule_engagements       *)
(* (the database and the broker answer every call of a pass)               *)
(***************************************************************************)
Subscribers == {"u1", "u2"}
Kinds == {"like", "comment"}

(* "HH:MM" strings are sequences of characters *)
Digits == <<"0", "1", "2", "3", "4", "5", "6", "7", "8", "9">>
DigitOf(c) == (CHOOSE d \in 1 .. 10 : Digits[d] = c) - 1

\* s[a:b]
Slice(s, a, b) == SubSeq(s, a + 1, Min(b, Len(s)))

\* int(s) raises ValueError
ValueError(s) == s = <<>> \/ \E i \in 1 .. Len(s) : \A d \in 1 .. 10 : Digits[d] # s[i]

\* int(s), s one or two digits
IntOf(s) == IF Len(s) = 1 THEN DigitOf(s[1]) ELSE 10 * DigitOf(s[1]) + DigitOf(s[2])

\* datetime: the weekday (Monday 0) and the second of the day
At(weekday, hour, minute) == [weekday |-> weekday, second |-> (hour * 60 + minute) * 60]

\* an offset that takes a window whose start equals its end for a whole day
offset_wrap_on_equal(t, start_str, end_str) ==
    IF \E x \in {Slice(start_str, 0, 2), Slice(start_str, 3, 5),
                 Slice(end_str, 0, 2), Slice(end_str, 3, 5)} : ValueError(x)
    THEN 0
    ELSE LET current_minutes == (t.second \div 3600) * 60 + (t.second % 3600) \div 60
             start_minutes == IntOf(Slice(start_str, 0, 2)) * 60 + IntOf(Slice(start_str, 3, 5))
             end_minutes == IntOf(Slice(end_str, 0, 2)) * 60 + IntOf(Slice(end_str, 3, 5))
             in_quiet == IF start_minutes >= end_minutes
                         THEN current_minutes >= start_minutes \/ current_minutes < end_minutes
                         ELSE start_minutes <= current_minutes /\ current_minutes < end_minutes
         IN  IF ~in_quiet THEN 0
             ELSE IF current_minutes < end_minutes
                  THEN (end_minutes - current_minutes) * 60
                  ELSE ((24 * 60 - current_minutes) + end_minutes) * 60

\* the seconds until end_str on the day of t, with no wrap past midnight
offset_same_day(t, start_str, end_str) ==
    IF ValueError(Slice(end_str, 0, 2)) \/ ValueError(Slice(end_str, 3, 5)) THEN 0
    ELSE LET current_minutes == t.second \div 60
             end_minutes == IntOf(Slice(end_str, 0, 2)) * 60 + IntOf(Slice(end_str, 3, 5))
         IN  IF current_minutes < end_minutes THEN (end_minutes - current_minutes) * 60 ELSE 0

\* _quiet_hours_offset(now, start_str, end_str)
quiet_hours_offset(t, start_str, end_str) ==
    IF \E x \in {Slice(start_str, 0, 2), Slice(start_str, 3, 5),
                 Slice(end_str, 0, 2), Slice(end_str, 3, 5)} : ValueError(x)
    THEN 0
    ELSE LET current_minutes == (t.second \div 3600) * 60 + (t.second % 3600) \div 60
             start_minutes == IntOf(Slice(start_str, 0, 2)) * 60 + IntOf(Slice(start_str, 3, 5))
             end_minutes == IntOf(Slice(end_str, 0, 2)) * 60 + IntOf(Slice(end_str, 3, 5))
             in_quiet == IF start_minutes > end_minutes
                         THEN current_minutes >= start_minutes \/ current_minutes < end_minutes
                         ELSE start_minutes <= current_minutes /\ current_minutes < end_minutes
         IN  IF ~in_quiet THEN 0
             ELSE IF current_minutes < end_minutes
                  THEN (end_minutes - current_minutes) * 60
                  ELSE ((24 * 60 - current_minutes) + end_minutes) * 60

\* the automation settings the API stores when the user sets none
DEFAULT_SETTINGS ==
    [risk_profile |-> "safe", quiet_hours_enabled |-> TRUE,
     quiet_hours_start |-> <<"2", "2", ":", "0", "0">>,
     quiet_hours_end |-> <<"0", "7", ":", "0", "0">>]

\* quiet_offset of one subscriber
QuietOffset(auto_settings, t) ==
    IF auto_settings.quiet_hours_enabled
    THEN quiet_hours_offset(t, auto_settings.quiet_hours_start, auto_settings.quiet_hours_end)
    ELSE 0

is_weekend(t) == t.weekday >= 5

\* no pass runs; a pass keeps the EngagementAction rows it added and the
\* messages it published, each with the row it is for and its countdown
NoPass == [pc |-> "idle", i |-> 0, created |-> <<>>, sent |-> <<>>]

\* the rows pass p added for user_id of one kind
Added(p, user_id, action_type) ==
    {n \in 1 .. Len(p.created) :
        p.created[n].user_id = user_id /\ p.created[n].action_type = action_type}

\* today_likes / today_comments: the count query, which sees the session's own rows
TodayCount(user_id, action_type) ==
    today[user_id][action_type] + Cardinality(Added(pass, user_id, action_type))

\* like_cap / comment_cap
Cap(risk, action_type) ==
    IF action_type = "like"
    THEN IF risk = "aggro" THEN LIKE_CAP_AGGRO ELSE LIKE_CAP_SAFE
    ELSE IF risk = "aggro" THEN COMMENT_CAP_AGGRO ELSE COMMENT_CAP_SAFE

\* today_likes <= like_cap
UpToCap(count, cap) == count <= cap

\* today_likes < like_cap
UnderCap(count, cap) == count < cap

\* every subscription counts, whatever its toggles
Toggled(sub, action_type) == TRUE

\* sub.auto_like / sub.auto_comment
Wanted(sub, action_type) == IF action_type = "like" THEN sub.auto_like ELSE sub.auto_comment

\* the condition under which the pass creates an action of the kind
Creates(sub, action_type) ==
    /\ Wanted(sub, action_type)
    /\ UnderCap(TodayCount(sub.user_id, action_type),
                Cap(sub.settings.risk_profile, action_type))

\* random.randint(a, b) for a like: the least and the greatest draw
LikeDraws(risk) ==
    IF risk = "aggro" THEN {1, 2} ELSE {LIKE_STAGGER_MIN, LIKE_STAGGER_MAX}

\* random.randint(a, b) for a comment: the least and the greatest draw
CommentDraws(risk) ==
    IF risk = "aggro" THEN {15, 60} ELSE {COMMENT_STAGGER_MIN, COMMENT_STAGGER_MAX}

\* a like delay that ignores the subscriber's index
LikeUnstaggered(risk, i, weekend, r) ==
    IF risk = "aggro" THEN r
    ELSE IF weekend THEN r * 2 ELSE r

\* delay of the like of the subscriber at index i, before quiet_offset
LikeDelay(risk, i, weekend, r) ==
    IF risk = "aggro" THEN r * (i + 1)
    ELSE IF weekend THEN (r * (i + 1)) * 2 ELSE r * (i + 1)

\* delay of the comment of the subscriber at index i, before quiet_offset
CommentDelay(risk, i, weekend, r) ==
    IF risk = "aggro" THEN r + (i * 15)
    ELSE IF weekend THEN (r + (i * COMMENT_INTER_USER_DELAY)) * 2
         ELSE r + (i * COMMENT_INTER_USER_DELAY)

\* one round of the loop over the subscriptions
ScheduleSub ==
    /\ pass.pc = "loop"
    /\ pass.i < Len(subs)
    /\ LET i == pass.i
           sub == subs[i + 1]
           risk == sub.settings.risk_profile
           quiet_offset == QuietOffset(sub.settings, now)
           like == Creates(sub, "like")
           comment == Creates(sub, "comment")
           like_id == Len(pass.created) + 1
           comment_id == IF like THEN like_id + 1 ELSE like_id
           row(kind) == [user_id |-> sub.user_id, action_type |-> kind, status |-> "pending"]
           msg(id, delay) == [action |-> id, countdown |-> delay + quiet_offset]
       IN  \E lr \in LikeDraws(risk), cr \in CommentDraws(risk) :
              pass' = [pass EXCEPT
                 !.i = i + 1,
                 !.created = @ \o (IF like THEN <<row("like")>> ELSE <<>>)
                               \o (IF comment THEN <<row("comment")>> ELSE <<>>),
                 !.sent = @ \o (IF like
                                THEN <<msg(like_id, LikeDelay(risk, i, is_weekend(now), lr))>>
                                ELSE <<>>)
                            \o (IF comment
                                THEN <<msg(comment_id,
                                           CommentDelay(risk, i, is_weekend(now), cr))>>
                                ELSE <<>>)]
    /\ UNCHANGED <<now, subs, today, offset>>

\* await db.commit() after the loop
ScheduleCommit ==
    /\ pass.pc = "loop"
    /\ pass.i = Len(subs)
    /\ pass' = [pass EXCEPT !.pc = "done"]
    /\ UNCHANGED <<now, subs, today, offset>>

\* the query that loads the profile of the subscriber at index pass.i raises:
\* nothing in the loop catches it, the pass ends, the session closes without
\* a commit and the rows it flushed are gone; the messages stay published
ScheduleFail ==
    /\ pass.pc = "loop"
    /\ pass.i < Len(subs)
    /\ pass' = [pass EXCEPT !.pc = "failed", !.created = <<>>]
    /\ UNCHANGED <<now, subs, today, offset>>

\* one round of the loop of the rival pass, which starts at any time; its
\* count queries see the committed rows of today and its own
RivalSub ==
    /\ rival.pc \in {"idle", "loop"}
    /\ rival.i < Len(subs)
    /\ LET sub == subs[rival.i + 1]
           row(kind) == [user_id |-> sub.user_id, action_type |-> kind, status |-> "pending"]
           count(kind) ==
               today[sub.user_id][kind]
                  + (IF pass.pc = "done" THEN Cardinality(Added(pass, sub.user_id, kind)) ELSE 0)
                  + Cardinality(Added(rival, sub.user_id, kind))
           like == Wanted(sub, "like")
                      /\ UnderCap(count("like"), Cap(sub.settings.risk_profile, "like"))
           comment == Wanted(sub, "comment")
                         /\ UnderCap(count("comment"), Cap(sub.settings.risk_profile, "comment"))
       IN  rival' = [rival EXCEPT
              !.pc = "loop",
              !.i = @ + 1,
              !.created = @ \o (IF like THEN <<row("like")>> ELSE <<>>)
                            \o (IF comment THEN <<row("comment")>> ELSE <<>>)]
    /\ UNCHANGED <<now, subs, today, pass, offset>>

\* await db.commit() of the rival pass: its rows are rows of today
RivalCommit ==
    /\ rival.pc = "loop"
    /\ rival.i = Len(subs)
    /\ today' = [u \in Subscribers |->
                    [k \in Kinds |-> today[u][k] + Cardinality(Added(rival, u, k))]]
    /\ rival' = [rival EXCEPT !.pc = "done", !.created = <<>>]
    /\ UNCHANGED <<now, subs, pass, offset>>

\* a call of _quiet_hours_offset with the first subscriber's window
OffsetCall ==
    /\ offset = NoTime
    /\ Len(subs) > 0
    /\ offset' = quiet_hours_offset(now, subs[1].settings.quiet_hours_start,
                                    subs[1].settings.quiet_hours_end)
    /\ UNCHANGED <<now, subs, today, pass>>

(***************************************************************************)
(* Webhook: handle_whatsapp_link                                           *)
(***************************************************************************)
\* the HTTP requests that can be in the handler at once
Requests == {"r1", "r2"}

\* the links delivered: the tracked page the URL matches, or none, and the
\* post identifier extracted from it
Links == {[page |-> "pg1", external_post_id |-> "x1"],
          [page |-> "pg1", external_post_id |-> "x2"],
          [page |-> "", external_post_id |-> "x3"]}

\* no request is in the handler; status is the last response
NoHook ==
    [pc |-> "idle", status |-> "",
     link |-> [page |-> "", external_post_id |-> ""],
     post |-> [id |-> "", tracked_page_id |-> "", external_post_id |-> ""]]

NoHooks ==
    /\ posts = {}
    /\ hook = [r \in Requests |-> NoHook]
    /\ delayed = EmptyBag

\* no row is ever taken for the same post
NeverSamePost(p, external_post_id) == FALSE

\* Post.external_post_id == external_post_id, the dedup key and the unique column
SamePost(p, external_post_id) == p.external_post_id = external_post_id

\* a delivery up to the dedup query: unmatched, duplicate, or a Post to add
handle_whatsapp_link(r, link) ==
    /\ hook[r].pc = "idle"
    /\ hook' = [hook EXCEPT ![r] =
          IF link.page = ""
          THEN [NoHook EXCEPT !.link = link, !.status = "unmatched"]
          ELSE IF \E p \in posts : SamePost(p, link.external_post_id)
               THEN [NoHook EXCEPT !.link = link, !.status = "duplicate"]
               ELSE [NoHook EXCEPT !.pc = "adding", !.link = link]]
    /\ UNCHANGED <<posts, delayed>>

\* db.add(post); await db.flush(): the unique index refuses a committed row of
\* the same post (IntegrityError, rollback, "duplicate") and waits for a
\* transaction that inserted one; else the row is inserted and
\* schedule_staggered_engagements.delay(post.id, matched_page.id) is published;
\* Post.id is a fresh uuid4
HookFlush(r) ==
    /\ hook[r].pc = "adding"
    /\ LET link == hook[r].link
           used == {p.id : p \in posts}
                      \cup {hook[q].post.id : q \in {q \in Requests : hook[q].pc = "flushed"}}
           post == [id |-> CHOOSE i \in {"p1", "p2", "p3", "p4"} \ used : TRUE,
                    tracked_page_id |-> link.page,
                    external_post_id |-> link.external_post_id]
       IN  IF \E p \in posts : SamePost(p, link.external_post_id)
           THEN /\ hook' = [hook EXCEPT ![r] = [NoHook EXCEPT !.link = link,
                                                              !.status = "duplicate"]]
                /\ UNCHANGED <<posts, delayed>>
           ELSE /\ \A q \in Requests \ {r} :
                      ~(hook[q].pc = "flushed" /\ SamePost(hook[q].post, link.external_post_id))
                /\ hook' = [hook EXCEPT ![r] = [pc |-> "flushed", link |-> link,
                                                post |-> post, status |-> "matched"]]
                /\ delayed' = delayed (+) SetToBag({<<post.id, link.page>>})
                /\ UNCHANGED posts

\* the handler returns and get_db commits the session
HookCommit(r) ==
    /\ hook[r].pc = "flushed"
    /\ posts' = posts \cup {hook[r].post}
    /\ hook' = [hook EXCEPT ![r] = [@ EXCEPT !.pc = "idle", !.post = NoHook.post]]
    /\ UNCHANGED delayed

(***************************************************************************)
(* Specifications                                                          *)
(***************************************************************************)
LockInit ==
    /\ store = [k \in Keys |-> [val |-> NoId, ttl |-> 0]]
    /\ lockObj = [w \in Workers |-> NoLock]
    /\ blocking = [w \in Workers |-> NotBlocking]
    /\ ret = [w \in Workers |-> NoRet]
    /\ wins = [k \in Keys |-> 0]

\* no scheduling pass is followed; the wall clock stands at a Wednesday noon
NoSchedule ==
    /\ now = At(2, 12, 0)
    /\ subs = <<>>
    /\ today = [u \in Subscribers |-> [k \in Kinds |-> 0]]
    /\ pass = NoPass
    /\ offset = NoTime
    /\ rival = NoPass

\* after a scheduling pass for one post: the row PENDING and its message
\* published with the countdown the Scheduler gave it
Init ==
    /\ LockInit
    /\ rows = [a \in ActionIds |-> NewRow]
    /\ queue = SetToBag({Task(a, 1, 0) : a \in ActionIds})
    /\ inv = [w \in Workers |-> Idle]
    /\ performed = [a \in ActionIds |-> 0]
    /\ retried = [a \in ActionIds |-> 0]
    /\ NoSchedule
    /\ NoHooks

\* a step that leaves the history as it is
Quiet(A) == A /\ UNCHANGED histVars /\ UNCHANGED schedVars /\ UNCHANGED hookVars

\* a step with the history recorded
Recorded(A) == A /\ History /\ UNCHANGED schedVars /\ UNCHANGED hookVars

\* the worker pool, the Reaper and the clock
Next ==
    \/ \E w \in Workers : \E t \in BagToSet(queue) : Quiet(Start(w, t))
    \/ \E w \in Workers : Quiet(Claim(w))
    \/ \E w \in Workers : \E outcome \in AdapterOutcomes : Quiet(Act(w, outcome))
    \/ \E w \in Workers : Quiet(Commit(w))
    \/ \E w \in Workers : Quiet(Finally(w))
    \/ \E w \in Workers : Quiet(SoftTimeLimit(w))
    \/ \E w \in Workers : \E redeliver \in BOOLEAN : Quiet(Crash(w, redeliver))
    \/ Quiet(Cleanup)
    \/ Quiet(Tick)

Spec == Init /\ [][Next]_vars

\* one worker process, the Reaper and the clock, with the history recorded
SoloNext ==
    \/ \E t \in BagToSet(queue) : Recorded(Start("w1", t))
    \/ Recorded(Claim("w1"))
    \/ \E outcome \in AdapterOutcomes : Recorded(Act("w1", outcome))
    \/ Recorded(Commit("w1"))
    \/ Recorded(Finally("w1"))
    \/ Recorded(SoftTimeLimit("w1"))
    \/ \E redeliver \in BOOLEAN : Recorded(Crash("w1", redeliver))
    \/ Recorded(Cleanup)
    \/ Recorded(Tick)

SoloSpec == Init /\ [][SoloNext]_vars

\* no message is queued and no worker process runs a task
NoTasks ==
    /\ LockInit
    /\ NoHooks
    /\ rows = [a \in ActionIds |-> NewRow]
    /\ queue = EmptyBag
    /\ inv = [w \in Workers |-> Idle]
    /\ performed = [a \in ActionIds |-> 0]
    /\ retried = [a \in ActionIds |-> 0]

\* one worker process, the Reaper and the clock
ReaperNext ==
    \/ \E t \in BagToSet(queue) : Quiet(Start("w1", t))
    \/ Quiet(Claim("w1"))
    \/ \E outcome \in AdapterOutcomes : Quiet(Act("w1", outcome))
    \/ Quiet(Commit("w1"))
    \/ Quiet(Finally("w1"))
    \/ Quiet(SoftTimeLimit("w1"))
    \/ \E redeliver \in BOOLEAN : Quiet(Crash("w1", redeliver))
    \/ Quiet(Cleanup)
    \/ Quiet(Tick)

ReaperSpec == Init /\ [][ReaperNext]_vars

LockSpecInit == NoTasks /\ NoSchedule

\* a step of the lock alone
Lk(A) ==
    A /\ UNCHANGED <<rows, queue, inv, performed, retried>> /\ UNCHANGED schedVars
      /\ UNCHANGED hookVars

LockNext ==
    \/ \E w \in Workers : \E k \in Keys : Lk(LkNew(w, k))
    \/ \E w \in Workers : Lk(LkAcquire(w))
    \/ \E w \in Workers : \E timeout \in Timeouts : Lk(LkAcquireBlocking(w, timeout))
    \/ \E w \in Workers : Lk(LkPoll(w))
    \/ \E w \in Workers : Lk(LkGiveUp(w))
    \/ \E w \in Workers : Lk(LkRelease(w))
    \/ \E w \in Workers : Lk(LkExtend(w))
    \/ Lk(LkTick)

\* worker processes calling the UserLock API directly
LockSpec == LockSpecInit /\ [][LockNext]_vars

\* the one key the processes contend for under the finer clock
TtlKeys == {LockKey(LockAction("linkedin"), u) : u \in Users}

\* the non-blocking UserLock API under the finer clock; a process that makes a
\* new lock object while its old one is still stored has lost the old one
\* without releasing it (the holder crashed)
TtlNext ==
    \/ \E w \in Workers : \E k \in TtlKeys : Lk(LkNew(w, k))
    \/ \E w \in Workers : Lk(LkAcquire(w))
    \/ \E w \in Workers : Lk(LkRelease(w))
    \/ \E w \in Workers : Lk(LkExtend(w))
    \/ Lk(LkSleep)

TtlSpec == LockSpecInit /\ [][TtlNext]_vars

\* one worker process that never crashes, the Reaper and the clock, every step
\* of each bound to happen: the queue delivers every due message, a running
\* task goes on, the Reaper keeps running; the platform is not bound to answer
\* in any one way
LiveNext ==
    \/ \E t \in BagToSet(queue) : Quiet(Start("w1", t))
    \/ Quiet(Claim("w1"))
    \/ \E outcome \in AdapterOutcomes : Quiet(Act("w1", outcome))
    \/ Quiet(Commit("w1"))
    \/ Quiet(Finally("w1"))
    \/ Quiet(SoftTimeLimit("w1"))
    \/ Quiet(Cleanup)
    \/ Quiet(Tick)

Fairness ==
    /\ WF_vars(Quiet(Tick))
    /\ WF_vars(Quiet(Cleanup))
    /\ WF_vars(\E t \in BagToSet(queue) : Quiet(Start("w1", t)))
    /\ WF_vars(Quiet(Claim("w1")))
    /\ WF_vars(\E outcome \in AdapterOutcomes : Quiet(Act("w1", outcome)))
    /\ WF_vars(Quiet(Commit("w1")))
    /\ WF_vars(Quiet(Finally("w1")))
    /\ WF_vars(Quiet(SoftTimeLimit("w1")))

LiveSpec == Init /\ [][LiveNext]_vars /\ Fairness

\* a step of the Scheduler alone
\* After a loss: the record is PENDING and its message was lost or dropped
\* (the queue is empty) or is there, due at once or not yet; or the record is
\* IN_PROGRESS and the worker process that claimed it has crashed, its lock
\* key still stored or not.  No worker process is lost from here on.
RecoverInit ==
    /\ store \in {[k \in Keys |-> IF k = held THEN [val |-> NoId + 1, ttl |-> LOCK_TTL]
                                    ELSE [val |-> NoId, ttl |-> 0]] :
                     held \in Keys \cup {LockKey(LockAction("none"), "none")}}
    /\ lockObj = [w \in Workers |-> NoLock]
    /\ blocking = [w \in Workers |-> NotBlocking]
    /\ ret = [w \in Workers |-> NoRet]
    /\ wins = [k \in Keys |-> IF store[k].val = NoId THEN 0 ELSE 1]
    /\ \/ /\ rows = [a \in ActionIds |-> NewRow]
          /\ queue \in {EmptyBag} \cup {SetToBag({Task(a, c, n)}) :
                                         a \in ActionIds, c \in {0, BUSY_COUNTDOWN},
                                         n \in 0 .. TASK_MAX_RETRIES}
       \/ /\ rows = [a \in ActionIds |-> ClaimRow(NewRow)]
          /\ queue = EmptyBag
    /\ inv = [w \in Workers |-> Idle]
    /\ performed = [a \in ActionIds |-> 0]
    /\ retried = [a \in ActionIds |-> 0]
    /\ NoSchedule
    /\ NoHooks

\* the queue delivers every message, a started task goes on unless the soft
\* time limit stops it, the Reaper runs on its schedule and time passes
RecoverFairness ==
    /\ WF_vars(Quiet(Tick))
    /\ WF_vars(Quiet(Cleanup))
    /\ SF_vars(\E t \in BagToSet(queue) : Quiet(Start("w1", t)))
    /\ SF_vars(Quiet(Claim("w1")))
    /\ SF_vars(\E outcome \in AdapterOutcomes : Quiet(Act("w1", outcome)))
    /\ SF_vars(Quiet(Commit("w1")))
    /\ WF_vars(Quiet(Finally("w1")))
    /\ WF_vars(Quiet(SoftTimeLimit("w1")))

\* one worker process that is never lost, the Reaper and the clock
RecoverSpec == RecoverInit /\ [][LiveNext]_vars /\ RecoverFairness

Sched(A) ==
    A /\ UNCHANGED <<lockVars, rows, queue, inv, performed, retried, hookVars, rival>>

\* A pass starts, on a Wednesday noon or inside the quiet hours of a Saturday:
\* the subscriptions are loaded and now is read.  A page has at most MaxSubs
\* subscriptions, one per user, with any toggles, either risk profile and the
\* quiet hours of DEFAULT_SETTINGS on or off; each subscriber's rows of today
\* are one short of a cap, or at it.
SchedInit ==
    LET Settings == {[DEFAULT_SETTINGS EXCEPT !.risk_profile = r, !.quiet_hours_enabled = q] :
                        r \in {"safe", "aggro"}, q \in BOOLEAN}
        Sub == [user_id : Subscribers, auto_like : BOOLEAN, auto_comment : BOOLEAN,
                settings : Settings]
        SubLists == {s \in UNION {[1 .. n -> Sub] : n \in 0 .. MaxSubs} :
                        \A a, b \in 1 .. Len(s) : a # b => s[a].user_id # s[b].user_id}
        Usage == {[like |-> LIKE_CAP_SAFE - 1, comment |-> COMMENT_CAP_SAFE - 1],
                  [like |-> LIKE_CAP_SAFE, comment |-> COMMENT_CAP_SAFE],
                  [like |-> LIKE_CAP_AGGRO - 1, comment |-> COMMENT_CAP_AGGRO - 1],
                  [like |-> LIKE_CAP_AGGRO, comment |-> COMMENT_CAP_AGGRO]}
    IN  /\ NoTasks
        /\ now \in {At(2, 12, 0), At(5, 23, 30)}
        /\ subs \in SubLists
        /\ today \in {f \in [Subscribers -> Usage \cup {[k \in Kinds |-> 0]}] :
                        \A u \in Subscribers :
                            (f[u] \in Usage) = (\E j \in 1 .. Len(subs) : subs[j].user_id = u)}
        /\ pass = [NoPass EXCEPT !.pc = "loop"]
        /\ offset = NoTime
        /\ rival = NoPass

SchedNext ==
    \/ Sched(ScheduleSub)
    \/ Sched(ScheduleCommit)

\* one scheduling pass
SchedSpec == SchedInit /\ [][SchedNext]_vars

\* a step of the rival pass
Rv(A) == A /\ UNCHANGED <<lockVars, rows, queue, inv, performed, retried, hookVars>>

RaceNext ==
    \/ Sched(ScheduleSub)
    \/ Sched(ScheduleCommit)
    \/ Rv(RivalSub)
    \/ Rv(RivalCommit)

\* two scheduling passes, for two posts of one page, at the same time
RaceSpec == SchedInit /\ [][RaceNext]_vars

FaultNext ==
    \/ Sched(ScheduleSub)
    \/ Sched(ScheduleFail)
    \/ Sched(ScheduleCommit)

\* one scheduling pass in which loading a subscriber's profile may raise
FaultSpec == SchedInit /\ [][FaultNext]_vars

\* the quiet-hours windows _quiet_hours_offset is called with: one that wraps
\* midnight, one inside a day, one that does not parse
Windows ==
    {<< <<"2", "2", ":", "0", "0">>, <<"0", "7", ":", "0", "0">> >>,
     << <<"0", "1", ":", "0", "0">>, <<"0", "6", ":", "0", "0">> >>,
     << <<"2", "2", ":", "0", "0">>, <<"7", ":", "0", "0">> >>,
     << <<"0", "9", ":", "1", "5">>, <<"1", "7", ":", "4", "5">> >>,
     << <<"0", "7", ":", "0", "0">>, <<"0", "7", ":", "0", "0">> >>,
     << <<"2", "2", "h", "0", "0">>, <<"0", "7", ":", "x", "0">> >>}

OffsetInit ==
    /\ NoTasks
    /\ now \in {At(2, 0, n * StepMinutes) : n \in 0 .. ((24 * 60) \div StepMinutes - 1)}
    /\ subs \in {<<[user_id |-> "u1", auto_like |-> TRUE, auto_comment |-> TRUE,
                     settings |-> [DEFAULT_SETTINGS EXCEPT !.quiet_hours_start = win[1],
                                                          !.quiet_hours_end = win[2]]]>> :
                    win \in Windows}
    /\ today = [u \in Subscribers |-> [k \in Kinds |-> 0]]
    /\ pass = NoPass
    /\ offset = NoTime
    /\ rival = NoPass

OffsetNext == Sched(OffsetCall)

\* _quiet_hours_offset called at every StepMinutes of a day
OffsetSpec == OffsetInit /\ [][OffsetNext]_vars

\* datetime + timedelta(seconds=dt)
Later(t, dt) ==
    [weekday |-> (t.weekday + (t.second + dt) \div (24 * 3600)) % 7,
     second |-> (t.second + dt) % (24 * 3600)]

\* the wall clock at t is inside the enabled quiet hours of the settings
InQuietHours(auto_settings, t) == QuietOffset(auto_settings, t) > 0

\* The Scheduler has run at 06:00 inside the quiet hours of its one subscriber:
\* the like is PENDING and its message carries the stagger delay and quiet_offset.
QuietInit ==
    /\ LockInit
    /\ NoHooks
    /\ now = At(2, 6, 0)
    /\ subs = <<[user_id |-> "u1", auto_like |-> TRUE, auto_comment |-> FALSE,
                 settings |-> DEFAULT_SETTINGS]>>
    /\ today = [u \in Subscribers |-> [k \in Kinds |-> 0]]
    /\ \E r \in LikeDraws(subs[1].settings.risk_profile) :
          LET delay == LikeDelay(subs[1].settings.risk_profile, 0, is_weekend(now), r)
                          + QuietOffset(subs[1].settings, now)
          IN  /\ pass = [pc |-> "done", i |-> 1,
                         created |-> <<[user_id |-> "u1", action_type |-> "like",
                                        status |-> "pending"]>>,
                         sent |-> <<[action |-> 1, countdown |-> delay]>>]
              /\ queue = SetToBag({Task(a, delay, 0) : a \in ActionIds})
    /\ offset = NoTime
    /\ rival = NoPass
    /\ rows = [a \in ActionIds |-> NewRow]
    /\ inv = [w \in Workers |-> Idle]
    /\ performed = [a \in ActionIds |-> 0]
    /\ retried = [a \in ActionIds |-> 0]

\* TickSeconds pass on the wall clock too, until MorningSeconds after the quiet hours
QuietTick ==
    /\ InQuietHours(subs[1].settings, Later(now, 0 - MorningSeconds))
    /\ Tick
    /\ now' = Later(now, TickSeconds)
    /\ UNCHANGED <<performed, retried, subs, today, pass, offset, rival, hookVars>>

QuietNext ==
    \/ \E t \in BagToSet(queue) : Quiet(Start("w1", t))
    \/ Quiet(Claim("w1"))
    \/ \E outcome \in AdapterOutcomes : Quiet(Act("w1", outcome))
    \/ Quiet(Commit("w1"))
    \/ Quiet(Finally("w1"))
    \/ Quiet(SoftTimeLimit("w1"))
    \/ \E redeliver \in BOOLEAN : Quiet(Crash("w1", redeliver))
    \/ Quiet(Cleanup)
    \/ QuietTick

\* one worker process, the Reaper and the clock from a scheduling pass inside
\* the quiet hours until they are over
QuietSpec == QuietInit /\ [][QuietNext]_vars

\* a worker takes a schedule_staggered_engagements message, which has no
\* countdown, and the pass for its post starts; a pass that is over makes room
HookDeliver(d) ==
    /\ BagIn(d, delayed)
    /\ pass.pc \in {"idle", "done"}
    /\ delayed' = delayed (-) SetToBag({d})
    /\ pass' = [NoPass EXCEPT !.pc = "loop"]
    /\ UNCHANGED <<lockVars, rows, queue, inv, performed, retried>>
    /\ UNCHANGED <<now, subs, today, offset, rival, posts, hook>>

\* a step of the webhook alone
Hk(A) == A /\ UNCHANGED <<lockVars, rows, queue, inv, performed, retried>> /\ UNCHANGED schedVars

HookNext ==
    \/ \E r \in Requests, link \in Links : Hk(handle_whatsapp_link(r, link))
    \/ \E r \in Requests : Hk(HookFlush(r))
    \/ \E r \in Requests : Hk(HookCommit(r))

DeliverNext ==
    \/ \E r \in Requests, link \in Links : Hk(handle_whatsapp_link(r, link))
    \/ \E r \in Requests : Hk(HookFlush(r))
    \/ \E r \in Requests : Hk(HookCommit(r))
    \/ \E d \in BagToSet(delayed) : HookDeliver(d)
    \/ Sched(ScheduleCommit)

\* the webhook, and the workers that run the passes it publishes
DeliverSpec == LockSpecInit /\ [][DeliverNext]_vars

\* deliveries of links to the webhook, two requests at a time
HookSpec == LockSpecInit /\ [][HookNext]_vars

(***************************************************************************)
(* Properties                                                              *)
(***************************************************************************)

\* worker process w is inside the locked section of execute_engagement, at
\* work on the action: it acquired the lock and has not yet committed the result
InSection(w) == inv[w].pc \in {"loaded", "claimed", "acted"}

\* the (user, platform) lock key of the task w is running
SectionKey(w) ==
    LockKey(LockAction(Meta[inv[w].task.action].platform), Meta[inv[w].task.action].user_id)

\* C1: no two Executor invocations for the same (user, platform) are inside the
\* locked section of execute_engagement at the same time, also when one of
\* them has run longer than the lock TTL and less than the task time limit.
C1_MutualExclusion ==
    \A w1, w2 \in Workers :
        (w1 # w2 /\ InSection(w1) /\ InSection(w2)) => SectionKey(w1) # SectionKey(w2)

\* C2: an invocation writes IN_PROGRESS only to a row that is PENDING at that
\* moment: one invocation makes the PENDING -> IN_PROGRESS transition and every
\* other one finds the row not PENDING and does nothing.
C2_SingleClaim ==
    [][\A w \in Workers :
         (inv[w].pc = "loaded" /\ inv'[w].pc = "claimed")
            => rows[inv[w].task.action].status = "pending"]_vars

\* C3: the adapter call acts on the platform at most once per action, whatever
\* the Executor runs, redeliveries, crashes and Reaper passes.
C3_PerformedAtMostOnce == \A a \in ActionIds : performed[a] <= 1

StatusChanges ==
    {<<"pending", "in_progress">>, <<"in_progress", "completed">>,
     <<"in_progress", "failed">>, <<"failed", "pending">>}

\* C4: every change of a row's status is PENDING -> IN_PROGRESS,
\* IN_PROGRESS -> COMPLETED, IN_PROGRESS -> FAILED or FAILED -> PENDING.
C4_StatusChanges ==
    [][\A a \in ActionIds :
         rows'[a].status # rows[a].status
            => <<rows[a].status, rows'[a].status>> \in StatusChanges]_vars

\* a timestamp column was not written: it stays NULL, or only grows older
Kept(t, u) == IF t = NoTime THEN u = NoTime ELSE u # NoTime /\ u >= t

\* C5: once a row is COMPLETED no step changes its status, attempted_at,
\* completed_at, error_message, retry_count or last_retry_at (so it becomes
\* COMPLETED at most once).
C5_CompletedImmutable ==
    [][\A a \in ActionIds :
         rows[a].status = "completed"
            => /\ rows'[a].status = "completed"
               /\ rows'[a].error_message = rows[a].error_message
               /\ rows'[a].retry_count = rows[a].retry_count
               /\ Kept(rows[a].attempted_at, rows'[a].attempted_at)
               /\ Kept(rows[a].completed_at, rows'[a].completed_at)
               /\ Kept(rows[a].last_retry_at, rows'[a].last_retry_at)]_vars

\* C6: a row is committed as COMPLETED only when the adapter call made for it
\* reported success; a call that returned False or raised never ends in COMPLETED.
C6_CompletedOnlyOnSuccess ==
    [][\A w \in Workers :
         (/\ inv[w].pc = "acted"
          /\ inv'[w].pc = "finally"
          /\ rows'[inv[w].task.action].status = "completed"
          /\ inv'[w].audits = inv[w].audits + 1)
            => inv[w].kind = "done"]_vars

\* C7: over a row's life the Reaper makes the FAILED -> PENDING transition at
\* most MAX_RETRIES times, whoever recorded the failures.
C7_RetriedAtMostMaxRetries == \A a \in ActionIds : retried[a] <= MAX_RETRIES

\* C8: with the queue delivering and the Reaper running, every row ends in a
\* status it never leaves: COMPLETED, or FAILED and not retried again.
C8_EventuallyTerminal ==
    \A a \in ActionIds : <>[](rows[a].status \in {"completed", "failed"})

\* worker process w's lock object is the owner stored under key k
Holds(w, k) ==
    lockObj[w].acquired /\ lockObj[w].key = k /\ store[k].val = lockObj[w].lock_id

\* C9: under any key at most one acquire has succeeded since the key was last
\* absent, and at most one lock object is its stored owner, whatever the
\* interleaving of acquire, release, extend and expiry.
C9_AtMostOneHolder ==
    \A k \in Keys :
        /\ wins[k] <= 1
        /\ (wins[k] = 1) = (store[k].val # NoId)
        /\ Cardinality({w \in Workers : Holds(w, k)}) <= 1

\* an acquire was refused while another process holds the key
C9_Witness ==
    \E w1, w2 \in Workers :
        /\ w1 # w2
        /\ Holds(w1, lockObj[w1].key)
        /\ lockObj[w2].key = lockObj[w1].key
        /\ ret[w1] = [op |-> "acquire", ok |-> TRUE]
        /\ ret[w2] = [op |-> "acquire", ok |-> FALSE]

\* C10: release() deletes the key and returns True only when the caller
\* acquired and the stored value is its own token; otherwise it returns False
\* and leaves the store as it was.
C10_ReleaseOwnTokenOnly ==
    [][\A w \in Workers :
         LkRelease(w)
            => IF lockObj[w].acquired /\ store[lockObj[w].key].val = lockObj[w].lock_id
               THEN /\ ret'[w] = [op |-> "release", ok |-> TRUE]
                    /\ store'[lockObj[w].key].val = NoId
                    /\ \A k \in Keys \ {lockObj[w].key} : store'[k] = store[k]
               ELSE /\ ret'[w] = [op |-> "release", ok |-> FALSE]
                    /\ store' = store]_vars

\* a holder whose key expired and was acquired by another process was refused
\* by release(), and the other owner's token is still stored
C10_Witness ==
    \E w1, w2 \in Workers :
        /\ w1 # w2
        /\ ret[w1] = [op |-> "release", ok |-> FALSE]
        /\ lockObj[w1].acquired
        /\ lockObj[w2].key = lockObj[w1].key
        /\ Holds(w2, lockObj[w2].key)

\* C11: a lock key is never unavailable forever.  A stored key has a positive
\* remaining life of at most its TTL (LOCK_TTL, or the extended TTL); an
\* acquire succeeds exactly when the key is absent, so it fails as long as the
\* TTL has not elapsed; the owner's successful release leaves the key absent;
\* and the passing of time removes the key exactly when its remaining life is
\* used up, released or not.
C11_NeverUnavailableForever ==
    /\ [](\A k \in Keys :
            store[k].val # NoId => store[k].ttl \in 1 .. (LOCK_TTL + EXTEND_ADDITIONAL))
    /\ [][\A w \in Workers :
            LkAcquire(w)
               => /\ ret'[w].ok = (store[lockObj[w].key].val = NoId)
                  /\ (ret'[w].ok => /\ store'[lockObj[w].key].val = lockObj[w].lock_id
                                    /\ store'[lockObj[w].key].ttl = LOCK_TTL)]_vars
    /\ [][\A w \in Workers :
            (LkRelease(w) /\ ret'[w].ok) => store'[lockObj[w].key].val = NoId]_vars
    /\ [][LkSleep
            => \A k \in Keys :
                  /\ (store'[k].val = NoId)
                        = (store[k].val = NoId \/ store[k].ttl <= SleepSeconds)
                  /\ (store'[k].val # NoId
                        => /\ store'[k].val = store[k].val
                           /\ store'[k].ttl = store[k].ttl - SleepSeconds)]_vars

\* a process acquired a key and has called nothing since (it never released);
\* the key outlived its TTL and another process then acquired it
C11_Witness ==
    \E w1, w2 \in Workers :
        /\ w1 # w2
        /\ lockObj[w1].key = lockObj[w2].key
        /\ lockObj[w1].acquired
        /\ ret[w1] = [op |-> "acquire", ok |-> TRUE]
        /\ Holds(w2, lockObj[w2].key)
        /\ ret[w2] = [op |-> "acquire", ok |-> TRUE]

\* C12: in a scheduling pass, a subscribed user whose rows of today of a kind
\* (any status) are at or above the cap of the user's risk profile (safe: 50
\* likes, 20 comments; aggro: 150 likes, 60 comments) gets no record of that
\* kind and no task for one.
C12_NoRecordAtCap ==
    \A j \in 1 .. Len(subs) : \A kind \in Kinds :
        LET user_id == subs[j].user_id
            cap == IF subs[j].settings.risk_profile = "aggro"
                   THEN IF kind = "like" THEN LIKE_CAP_AGGRO ELSE COMMENT_CAP_AGGRO
                   ELSE IF kind = "like" THEN LIKE_CAP_SAFE ELSE COMMENT_CAP_SAFE
        IN  today[user_id][kind] >= cap
               => /\ Added(pass, user_id, kind) = {}
                  /\ \A m \in 1 .. Len(pass.sent) :
                        LET r == pass.created[pass.sent[m].action]
                        IN  ~(r.user_id = user_id /\ r.action_type = kind)

\* a finished pass that gave a safe subscriber with auto_like on and exactly 50
\* likes today no like, and created a record for somebody else
C12_Witness ==
    /\ pass.pc = "done"
    /\ Len(pass.created) > 0
    /\ \E j \in 1 .. Len(subs) :
          /\ subs[j].auto_like
          /\ subs[j].settings.risk_profile = "safe"
          /\ today[subs[j].user_id]["like"] = LIKE_CAP_SAFE
          /\ Added(pass, subs[j].user_id, "like") = {}

\* C20: a pass creates exactly one PENDING LIKE record for each subscription
\* with auto_like on and the like count under the cap, exactly one PENDING
\* COMMENT record for each subscription with auto_comment on and the comment
\* count under the cap, publishes exactly one task per created record, and
\* creates nothing else; with no subscriptions it creates and publishes nothing.
C20_OneRecordPerEligible ==
    /\ \A j \in 1 .. Len(subs) : \A kind \in Kinds :
          LET sub == subs[j]
              on == IF kind = "like" THEN sub.auto_like ELSE sub.auto_comment
              eligible == on /\ today[sub.user_id][kind] < Cap(sub.settings.risk_profile, kind)
          IN  Cardinality(Added(pass, sub.user_id, kind))
                 = IF j <= pass.i /\ eligible THEN 1 ELSE 0
    /\ \A n \in 1 .. Len(pass.created) :
          /\ pass.created[n].status = "pending"
          /\ pass.created[n].action_type \in Kinds
          /\ \E j \in 1 .. pass.i : subs[j].user_id = pass.created[n].user_id
          /\ Cardinality({m \in 1 .. Len(pass.sent) : pass.sent[m].action = n}) = 1
    /\ \A m \in 1 .. Len(pass.sent) : pass.sent[m].action \in 1 .. Len(pass.created)
    /\ Len(subs) = 0 => pass.created = <<>> /\ pass.sent = <<>>

\* a finished pass over two subscriptions that created both records for one
\* of them and one record for the other
C20_Witness ==
    /\ pass.pc = "done"
    /\ Len(subs) = MaxSubs
    /\ Len(pass.created) = 3
    /\ Len(pass.sent) = 3
    /\ \E kind \in Kinds : Added(pass, subs[2].user_id, kind) = {}

\* C13: no action goes from PENDING to IN_PROGRESS while the wall clock is
\* inside the enabled quiet hours of the acting user, whichever component
\* published the message the Executor is running.
C13_NoStartInQuietHours ==
    [][\A w \in Workers :
         (inv[w].pc = "loaded" /\ inv'[w].pc = "claimed"
             /\ rows'[inv[w].task.action].status = "in_progress")
            => ~InQuietHours(subs[1].settings, now)]_vars

\* the messages for action a that this step adds to the queue
PublishedFor(a) ==
    LET d == queue' (-) queue
    IN  [t \in {u \in BagToSet(d) : u.action = a} |-> CopiesIn(t, d)]

\* the error message contains a permanent-failure pattern, whatever the case
Permanent(error_message) ==
    \E pattern \in PERMANENT_FAILURE_PATTERNS :
        Contains(Lower(error_message), Lower(pattern))

\* C14: a FAILED row whose error_message contains a permanent-failure pattern
\* in any case is left as it is by a Reaper pass and nothing is published for
\* it, whatever its retry_count and the time elapsed.
C14_PermanentNeverRetried ==
    [][Cleanup
         => \A a \in ActionIds :
               (rows[a].status = "failed" /\ Permanent(rows[a].error_message))
                  => /\ rows'[a] = rows[a]
                     /\ PublishedFor(a) = EmptyBag]_vars

\* a FAILED row with "Like button not found for post: ...", one stale failure
\* counted before and the backoff of the next retry over
C14_Witness ==
    \E a \in ActionIds :
        /\ rows[a].status = "failed"
        /\ rows[a].error_message = MsgNotFound
        /\ rows[a].retry_count = 1
        /\ rows[a].last_retry_at >= RETRY_DELAYS(2)
        /\ Outstanding = 0

\* what C15 requires of a pass: a FAILED row for which Due holds becomes
\* PENDING with attempted_at and error_message cleared and retry_count kept,
\* and one message with the backoff delay as countdown is published; any other
\* FAILED row is left as it is and nothing is published for it
RetriesWhen(Due(_)) ==
    \A a \in ActionIds :
        rows[a].status = "failed"
           => IF Due(rows[a])
              THEN /\ rows'[a] = [rows[a] EXCEPT !.status = "pending",
                                                  !.attempted_at = NoTime,
                                                  !.error_message = NoMsg]
                   /\ PublishedFor(a)
                         = SetToBag({Task(a, RETRY_DELAYS(rows[a].retry_count + 1), 0)})
              ELSE /\ rows'[a] = rows[a]
                   /\ PublishedFor(a) = EmptyBag

\* retry_count < 3, the error not permanent, and the delay of the next retry
\* elapsed since last_retry_at
DueAsStated(r) ==
    /\ r.retry_count < MAX_RETRIES
    /\ ~Permanent(r.error_message)
    /\ r.last_retry_at # NoTime
    /\ r.last_retry_at >= RETRY_DELAYS(r.retry_count + 1)

\* the same, a row whose last_retry_at is NULL having no backoff to wait for
DueOrNeverRetried(r) ==
    /\ r.retry_count < MAX_RETRIES
    /\ ~Permanent(r.error_message)
    /\ (r.last_retry_at # NoTime => r.last_retry_at >= RETRY_DELAYS(r.retry_count + 1))

\* C15: a Reaper pass moves a FAILED row to PENDING exactly when retry_count
\* < 3, its error is not permanent, and last_retry_at is NULL or at least
\* RETRY_DELAYS[retry_count+1] in the past; it clears attempted_at and
\* error_message, keeps retry_count and publishes the Executor with that delay
\* as countdown.  Any other FAILED row is left unchanged, nothing published.
C15_RetryAfterBackoff == [][Cleanup => RetriesWhen(DueOrNeverRetried)]_vars

\* C15 as stated: exactly when retry_count < 3, the error is not permanent and
\* at least RETRY_DELAYS[retry_count+1] have elapsed since last_retry_at.
C15_AsStated == [][Cleanup => RetriesWhen(DueAsStated)]_vars

\* a row the Reaper failed as stale and, the backoff over, has just returned
\* to PENDING: its message still carries the whole 10-minute countdown
C15_Witness ==
    \E a \in ActionIds :
        /\ rows[a].status = "pending"
        /\ rows[a].retry_count = 1
        /\ rows[a].last_retry_at >= RETRY_DELAYS(2)
        /\ rows[a].attempted_at = NoTime
        /\ rows[a].error_message = NoMsg
        /\ BagIn(Task(a, RETRY_DELAYS(2), 0), queue)

\* C16: a Reaper pass publishes one immediate execute_engagement for exactly
\* the PENDING rows with attempted_at NULL and created_at more than 30 minutes
\* in the past, and changes no field of a PENDING row; for a younger PENDING
\* row it publishes nothing.
C16_StalePendingRequeued ==
    [][Cleanup
         => \A a \in ActionIds :
               rows[a].status = "pending"
                  => /\ rows'[a] = rows[a]
                     /\ PublishedFor(a)
                           = IF /\ rows[a].attempted_at = NoTime
                                /\ rows[a].created_at > PENDING_STALE_MINUTES * 60
                             THEN SetToBag({Task(a, 0, 0)})
                             ELSE EmptyBag]_vars

\* the never-attempted row is older than 30 minutes and still PENDING; beside
\* the message that was due, the Reaper's immediate one is queued
C16_Witness ==
    \E a \in ActionIds :
        /\ rows[a] = [NewRow EXCEPT !.created_at = rows[a].created_at]
        /\ rows[a].created_at > PENDING_STALE_MINUTES * 60
        /\ CopiesIn(Task(a, 0, 0), queue) = 2

\* C17: a Reaper pass forces exactly the IN_PROGRESS rows whose attempted_at
\* is more than 10 minutes in the past to FAILED, with retry_count one higher,
\* last_retry_at the time of the pass and the timed-out error message; a
\* younger IN_PROGRESS row is left as it is.
C17_StaleInProgressFailed ==
    [][Cleanup
         => \A a \in ActionIds :
               rows[a].status = "in_progress"
                  => /\ rows'[a]
                           = IF rows[a].attempted_at > IN_PROGRESS_STALE_MINUTES * 60
                             THEN [rows[a] EXCEPT !.status = "failed",
                                                  !.retry_count = @ + 1,
                                                  !.last_retry_at = 0,
                                                  !.error_message = MsgTimedOutWorker]
                             ELSE rows[a]
                     /\ PublishedFor(a) = EmptyBag]_vars

\* a row the Reaper has just forced to FAILED for the second time
C17_Witness ==
    \E a \in ActionIds :
        /\ rows[a].status = "failed"
        /\ rows[a].error_message = MsgTimedOutWorker
        /\ rows[a].retry_count = 2
        /\ rows[a].last_retry_at = 0
        /\ rows[a].attempted_at > IN_PROGRESS_STALE_MINUTES * 60

\* C18: a FAILED row with retry_count >= 3 is left as it is by a Reaper pass
\* and nothing is published for it, however much time has elapsed.
C18_ExhaustedNeverRetried ==
    [][Cleanup
         => \A a \in ActionIds :
               (rows[a].status = "failed" /\ rows[a].retry_count >= MAX_RETRIES)
                  => /\ rows'[a] = rows[a]
                     /\ PublishedFor(a) = EmptyBag]_vars

\* a FAILED row with retry_count 3 and an error that is not permanent, more
\* than the longest backoff after its last failure, with nothing else going on
C18_Witness ==
    \E a \in ActionIds :
        /\ rows[a].status = "failed"
        /\ rows[a].retry_count = MAX_RETRIES
        /\ ~Permanent(rows[a].error_message)
        /\ rows[a].last_retry_at >= RETRY_DELAYS(MAX_RETRIES)
        /\ Outstanding = 0

\* _quiet_hours_offset was called with the window 22:00-07:00 at hour:minute
CalledAt(hour, minute) ==
    /\ offset # NoTime
    /\ subs[1].settings.quiet_hours_start = DEFAULT_SETTINGS.quiet_hours_start
    /\ subs[1].settings.quiet_hours_end = DEFAULT_SETTINGS.quiet_hours_end
    /\ now.second = At(now.weekday, hour, minute).second

\* C19: for the window 22:00-07:00, _quiet_hours_offset returns the seconds
\* left until 07:00: 27000 (7.5 h) at 23:30, 3600 (1 h) at 06:00, and 0 at
\* 12:00, outside the window.
C19_QuietHoursOffsetValues ==
    /\ CalledAt(23, 30) => offset = 27000
    /\ CalledAt(6, 0) => offset = 3600
    /\ CalledAt(12, 0) => offset = 0

\* C19 as stated: 12600 (3.5 h) at 23:30, 3600 at 06:00 and 0 at 12:00
C19_AsStated ==
    /\ CalledAt(23, 30) => offset = 12600
    /\ CalledAt(6, 0) => offset = 3600
    /\ CalledAt(12, 0) => offset = 0

\* the call at 23:30 returned the seconds until 07:00 of the next day
C19_Witness == CalledAt(23, 30) /\ offset = (30 + 7 * 60) * 60


\* C21: the countdown of the task of each record a pass creates, for the
\* subscriber at zero-based index i, is: like/safe r*(i+1) with r in 1..5,
\* doubled on Saturday and Sunday; like/aggro r*(i+1) with r in 1..2, the same
\* on weekends; comment/safe r + 60*i with r in 60..300, doubled on Saturday
\* and Sunday; comment/aggro r + 15*i with r in 15..60; in every case plus the
\* quiet-hours offset of that user.
C21_CountdownFormula ==
    \A m \in 1 .. Len(pass.sent) :
        LET row == pass.created[pass.sent[m].action]
            j == CHOOSE n \in 1 .. Len(subs) : subs[n].user_id = row.user_id
            i == j - 1
            risk == subs[j].settings.risk_profile
            weekend == now.weekday \in {5, 6}
            delay == pass.sent[m].countdown - QuietOffset(subs[j].settings, now)
        IN  /\ (row.action_type = "like" /\ risk = "safe")
                  => \E r \in 1 .. 5 :
                        delay = IF weekend THEN 2 * (r * (i + 1)) ELSE r * (i + 1)
            /\ (row.action_type = "like" /\ risk = "aggro")
                  => \E r \in 1 .. 2 : delay = r * (i + 1)
            /\ (row.action_type = "comment" /\ risk = "safe")
                  => \E r \in 60 .. 300 :
                        delay = IF weekend THEN 2 * (r + (60 * i)) ELSE r + (60 * i)
            /\ (row.action_type = "comment" /\ risk = "aggro")
                  => \E r \in 15 .. 60 : delay = r + (15 * i)

\* a finished Saturday-night pass whose second subscriber, safe with quiet
\* hours on, got a like 27020 seconds out and a comment 27720 seconds out
C21_Witness ==
    /\ pass.pc = "done"
    /\ now = At(5, 23, 30)
    /\ Len(subs) = 2
    /\ subs[2].settings.risk_profile = "safe"
    /\ subs[2].settings.quiet_hours_enabled
    /\ \E m, n \in 1 .. Len(pass.sent) :
          /\ pass.created[pass.sent[m].action]
                = [user_id |-> subs[2].user_id, action_type |-> "like", status |-> "pending"]
          /\ pass.sent[m].countdown = 27020
          /\ pass.created[pass.sent[n].action]
                = [user_id |-> subs[2].user_id, action_type |-> "comment", status |-> "pending"]
          /\ pass.sent[n].countdown = 27720


\* C22: an error while loading the automation settings of one subscribed user
\* does not abort the pass: when the pass has ended, every other subscribed
\* user of the page has the eligible records, committed, and one task for each.
C22_FailureIsolated ==
    pass.pc \in {"done", "failed"}
       => \A j \in 1 .. Len(subs) : \A kind \in Kinds :
             LET sub == subs[j]
                 on == IF kind = "like" THEN sub.auto_like ELSE sub.auto_comment
                 eligible == on /\ today[sub.user_id][kind] < Cap(sub.settings.risk_profile, kind)
                 failed == pass.pc = "failed" /\ j = pass.i + 1
             IN  (eligible /\ ~failed)
                    => \E n \in 1 .. Len(pass.created) :
                          /\ pass.created[n].user_id = sub.user_id
                          /\ pass.created[n].action_type = kind
                          /\ \E m \in 1 .. Len(pass.sent) : pass.sent[m].action = n


C24_RetriableReraised ==
    [][\A w \in Workers :
         (/\ inv[w].pc = "claimed"
          /\ inv'[w].pc # "idle"
          /\ inv'[w].kind = "raise"
          /\ inv'[w].error = MsgSoftLimit)
            => /\ inv'[w].status # "failed"
               /\ inv[w].task.retries < TASK_MAX_RETRIES
                     => PublishedFor(inv[w].task.action)
                           = SetToBag({Task(inv[w].task.action, DEFAULT_RETRY_DELAY,
                                            inv[w].task.retries + 1)})]_vars

\* C25: when the adapter call or the comment generation raises any other
\* exception, the Executor assigns FAILED and error_message = str(exception),
\* commits them, the task goes on to its end and publishes no retry: the only
\* message a task can leave behind after that is its own, unacknowledged,
\* delivered again by the broker when the worker process is lost.
C25_OtherExceptionRecorded ==
    [][\A w \in Workers :
         LET a == inv[w].task.action
         IN  /\ (/\ inv[w].pc = "claimed"
                 /\ inv'[w].pc # "idle"
                 /\ inv'[w].kind = "raise"
                 /\ inv'[w].error \in AdapterErrors)
                   => /\ inv'[w].pc = "acted"
                      /\ inv'[w].status = "failed"
                      /\ PublishedFor(a) = EmptyBag
             /\ (/\ inv[w].pc = "acted"
                 /\ inv[w].error \in AdapterErrors
                 /\ inv'[w].pc = "finally"
                 /\ inv'[w].soft = inv[w].soft)
                   => /\ rows'[a] = [rows[a] EXCEPT !.status = "failed",
                                                    !.error_message = inv[w].error]
                      /\ PublishedFor(a) = EmptyBag
             /\ (inv[w].pc = "finally" /\ inv'[w].pc = "idle")
                   => \A t \in BagToSet(PublishedFor(a)) :
                         t = [inv[w].task EXCEPT !.countdown = 0]]_vars

\* the adapter raised "LinkedIn API reaction failed ...": the row is FAILED
\* with that message, the task has ended and the queue is empty
C25_Witness ==
    \E a \in ActionIds :
        /\ rows[a].status = "failed"
        /\ rows[a].error_message = MsgApiFailed
        /\ rows[a].retry_count = 0
        /\ \A w \in Workers : inv[w].pc = "idle"
        /\ queue = EmptyBag


\* C26: an execution that cannot acquire the user lock changes nothing of
\* the EngagementAction, calls no adapter, writes no audit entry, and is
\* published again with a countdown of 30 seconds.
C26_BusyNoChange ==
    [][\A w \in Workers : \A t \in BagToSet(queue) :
         (Start(w, t) /\ inv'[w].pc = "idle")
            => /\ rows' = rows
               /\ inv' = inv
               /\ performed' = performed
               /\ PublishedFor(t.action)
                     = SetToBag({Task(t.action, BUSY_COUNTDOWN, t.retries + 1)})]_vars

\* C27: an execution that finds the user lock busy is published again with a
\* countdown of 30 seconds however many times it has found it busy before:
\* contention never drops the message.
C27_BusyAlwaysRedelivered ==
    [][\A w \in Workers : \A t \in BagToSet(queue) :
         (Start(w, t) /\ inv'[w].pc = "idle")
            => \E m \in BagToSet(queue') :
                  /\ m.action = t.action
                  /\ m.countdown = BUSY_COUNTDOWN
                  /\ CopiesIn(m, queue') > CopiesIn(m, queue)]_vars


C30_OneAuditPerDispatch ==
    /\ [](\A w \in Workers : inv[w].audits <= 1)
    /\ [][\A w \in Workers :
            (inv[w].pc \in {"claimed", "acted"} /\ inv'[w].pc = "finally")
               => inv'[w].audits = 1]_vars


\* the backoff messages waiting for action a: here the Scheduler's message
\* carries 1 second and every other message that was never retried by the
\* queue is due at once, so only a message of the Reaper's pass 3 has no
\* retries and more than 1 second to go
Backoff(a) == {t \in BagToSet(queue) : t.action = a /\ t.retries = 0 /\ t.countdown > 1}

\* C31: a record the Reaper returned to PENDING with a backoff countdown is
\* not attempted while that countdown runs, and a Reaper pass inside the
\* window publishes nothing more for it.
C31_NoStartBeforeBackoff ==
    /\ [][\A w \in Workers :
            (inv[w].pc = "loaded" /\ inv'[w].pc = "claimed")
               => Backoff(inv[w].task.action) = {}]_vars
    /\ [][Cleanup
            => \A a \in ActionIds :
                  (rows[a].status = "pending" /\ Backoff(a) # {})
                     => PublishedFor(a) = EmptyBag]_vars


\* C32: no step of an Executor invocation changes retry_count or
\* last_retry_at of any record; in particular the step that records a
\* failure (IN_PROGRESS to FAILED) leaves both as they were.
C32_ExecutorKeepsRetryFields ==
    [][(\E w \in Workers : inv'[w].pc # inv[w].pc)
          => \A a \in ActionIds :
                /\ rows'[a].retry_count = rows[a].retry_count
                /\ rows'[a].last_retry_at = rows[a].last_retry_at]_vars

\* the Executor has recorded "LinkedIn API reaction failed ..." on a record
\* the Reaper had failed and retried once before: retry_count is still 1 and
\* last_retry_at still set
C32_Witness ==
    \E a \in ActionIds :
        /\ rows[a].status = "failed"
        /\ rows[a].error_message = MsgApiFailed
        /\ rows[a].retry_count = 1
        /\ rows[a].last_retry_at # NoTime


\* C33: retry_count of every record never decreases from one state to the
\* next and always lies within 0 .. MAX_RETRIES.
C33_RetryCountMonotoneBounded ==
    /\ [](\A a \in ActionIds : rows[a].retry_count \in 0 .. 3)
    /\ [][\A a \in ActionIds : rows'[a].retry_count >= rows[a].retry_count]_vars

\* a record whose third stale failure was counted
C33_Witness ==
    \E a \in ActionIds :
        /\ rows[a].status = "failed"
        /\ rows[a].retry_count = 3
        /\ rows[a].error_message = MsgTimedOutWorker


\* C34: an invocation that claimed its record and goes on to the end of the
\* task (returning or raising, not lost with its worker process) leaves it
\* COMPLETED or FAILED, never IN_PROGRESS.
C34_NeverLeftInProgress ==
    [][\A w \in Workers :
         (inv[w].pc \in {"claimed", "acted"} /\ inv'[w].pc = "finally")
            => rows'[inv[w].task.action].status \in {"completed", "failed"}]_vars


\* C35: with the queue delivering, the Reaper running and no further loss of
\* a worker process, a PENDING record, whether its message was lost, dropped
\* or is still to come, is eventually claimed by an Executor, and an
\* IN_PROGRESS record that no worker process is running is eventually FAILED.
C35_NeverStuck ==
    /\ \A a \in ActionIds :
          (rows[a].status = "pending") ~> (rows[a].status = "in_progress")
    /\ \A a \in ActionIds :
          (rows[a].status = "in_progress" /\ \A w \in Workers : inv[w].task.action # a)
             ~> (rows[a].status = "failed")

\* the record left IN_PROGRESS without a worker process was failed by the
\* Reaper's pass 2 as soon as it was 10 minutes stale, and no worker runs
C35_Witness ==
    \E a \in ActionIds :
        /\ rows[a].status = "failed"
        /\ rows[a].error_message = MsgTimedOutWorker
        /\ rows[a].retry_count = 1
        /\ rows[a].last_retry_at = 0
        /\ rows[a].created_at = InProgressStale + TickSeconds
        /\ \A w \in Workers : inv[w].pc = "idle"


\* the committed rows of today of a user and a kind: those counted when the
\* passes started, those of the rival pass once it has committed, and those
\* of this pass once it has committed
RowsOfToday(user_id, kind) ==
    today[user_id][kind]
       + (IF pass.pc = "done" THEN Cardinality(Added(pass, user_id, kind)) ELSE 0)

\* C36: for every user and kind, no row is created on a day beyond the cap
\* of the user's risk profile, also when two scheduling passes for different
\* posts run at the same time: whenever the rows of the day grow, they are
\* within the cap afterwards.
C36_CapHoldsGlobally ==
    [][\A j \in 1 .. Len(subs) : \A kind \in Kinds :
         LET user_id == subs[j].user_id
             cap == IF subs[j].settings.risk_profile = "aggro"
                    THEN IF kind = "like" THEN 150 ELSE 60
                    ELSE IF kind = "like" THEN 50 ELSE 20
         IN  RowsOfToday(user_id, kind)' > RowsOfToday(user_id, kind)
                => RowsOfToday(user_id, kind)' <= cap]_vars


\* C37: every execute_engagement message a pass has published refers to a
\* record that is committed once the pass has ended: no message is left for
\* a record whose scheduling transaction was rolled back.
C37_TasksHaveCommittedRows ==
    pass.pc \in {"done", "failed"}
       => \A m \in 1 .. Len(pass.sent) : pass.sent[m].action \in 1 .. Len(pass.created)


\* C38: whenever a scheduling pass starts for a post id that was published,
\* the Post row with that id is committed.
C38_PostCommittedAtStart ==
    [][\A d \in BagToSet(delayed) :
         CopiesIn(d, delayed') < CopiesIn(d, delayed)
            => \E p \in posts : p.id = d[1] /\ p.tracked_page_id = d[2]]_vars

\* C39: in every reachable state, every EngagementAction that is PENDING has
\* attempted_at and error_message null, every one that is IN_PROGRESS has
\* attempted_at set, and completed_at is set exactly when the status is
\* COMPLETED.
C39_RowFieldsMatchStatus ==
    \A a \in ActionIds :
        /\ rows[a].status = "pending"
              => rows[a].attempted_at = NoTime /\ rows[a].error_message = NoMsg
        /\ rows[a].status = "in_progress" => rows[a].attempted_at # NoTime
        /\ (rows[a].completed_at # NoTime) <=> (rows[a].status = "completed")

\* "HH:MM" cannot be read as two numbers
Unparsable(str) == ValueError(Slice(str, 0, 2)) \/ ValueError(Slice(str, 3, 5))

\* the minute of the day "HH:MM" names
MinuteOfDay(str) == IntOf(Slice(str, 0, 2)) * 60 + IntOf(Slice(str, 3, 5))

\* minute m of the day lies in [start, end), walking forward from start
InWindow(m, start, end) == (m - start) % (24 * 60) < (end - start) % (24 * 60)

\* C40: for every time of the day and every window [start, end), same-day or
\* wrapping midnight, _quiet_hours_offset returns 0 outside the window and
\* inside it the seconds from the current minute to the next occurrence of
\* end, so that the current minute plus the offset is the window's end and
\* lies outside the window; it returns 0 when start equals end or a time
\* string cannot be parsed.
C40_QuietHoursOffsetCorrect ==
    offset # NoTime =>
        LET start_str == subs[1].settings.quiet_hours_start
            end_str == subs[1].settings.quiet_hours_end
        IN  IF Unparsable(start_str) \/ Unparsable(end_str) THEN offset = 0
            ELSE LET current == now.second \div 60
                     start == MinuteOfDay(start_str)
                     end == MinuteOfDay(end_str)
                     landing == (current + offset \div 60) % (24 * 60)
                 IN  IF start = end \/ ~InWindow(current, start, end) THEN offset = 0
                     ELSE /\ offset \in 1 .. 24 * 3600
                          /\ offset % 60 = 0
                          /\ landing = end
                          /\ ~InWindow(landing, start, end)

\* the call at 10:00 with the same-day window 09:15-17:45 returned the 7 h 45 min left
C40_Witness ==
    /\ offset = (7 * 60 + 45) * 60
    /\ now.second = At(now.weekday, 10, 0).second
    /\ MinuteOfDay(subs[1].settings.quiet_hours_start) = 9 * 60 + 15
    /\ MinuteOfDay(subs[1].settings.quiet_hours_end) = 17 * 60 + 45

====
